---- MODULE Spec2Model ----
(***************************************************************************)
(* A model of backend/app.py, the Flask backend of the YouTube analytics   *)
(* service.  Every request handler is a sequential chain of blocking       *)
(* upstream calls (make_youtube_request) followed by a synchronous         *)
(* computation of the derived metrics.  A handler is cut into one action   *)
(* per stretch of code between two upstream calls; the upstream API is the *)
(* environment and answers a pending call in the action UpstreamReturn.    *)
(*                                                                         *)
(* Conventions.  Strings the code inspects character by character (the     *)
(* channel input, comment texts) are sequences of one-character strings.   *)
(* Timestamps are whole hours on an absolute axis, Now being the instant   *)
(* of the request; only well-formed timestamps are modelled.  Exact        *)
(* quotients are kept as pairs <<numerator, denominator>>; a value the     *)
(* code rounds to two decimals is kept in hundredths.                      *)
(***************************************************************************)
EXTENDS Integers, Sequences, FiniteSets, TLC

VARIABLES req, pc, calls, loc, resp

vars == <<req, pc, calls, loc, resp>>

(***************************** bounds **************************************)
\* longest channel input tried (one more than the length of a channel id)
MaxInputLen == 25
\* most items in the recent-videos listing of the channel endpoint
MaxRecent == 2

(************************* sequences and numbers ***************************)
Min(a, b) == IF a < b THEN a ELSE b
Max(a, b) == IF a > b THEN a ELSE b

\* s[:n]
Take(s, n) == SubSeq(s, 1, Min(n, Len(s)))

\* s[n:] (0-based start n)
Drop(s, n) == SubSeq(s, Min(n, Len(s)) + 1, Len(s))

\* s[-n:] for n >= 1
LastN(s, n) == SubSeq(s, Max(Len(s) - n, 0) + 1, Len(s))

\* sum(s), by halves
RECURSIVE SumRange(_, _, _)
SumRange(s, lo, hi) ==
    IF lo > hi THEN 0
    ELSE IF lo = hi THEN s[lo]
    ELSE LET mid == (lo + hi) \div 2
         IN  SumRange(s, lo, mid) + SumRange(s, mid + 1, hi)
SumSeq(s) == SumRange(s, 1, Len(s))

\* the sequence s repeated cyclically up to length n
Cycle(s, n) == [i \in 1..n |-> s[((i - 1) % Len(s)) + 1]]

\* all sequences over S of length 0..n
SeqsUpTo(S, n) == UNION {[1..k -> S] : k \in 0..n}

\* the non-empty sequences over S without a repetition
DistinctSeqs(S) ==
    {s \in SeqsUpTo(S, Cardinality(S)) :
        s # <<>> /\ \A i \in 1..Len(s) : \A j \in 1..Len(s) : s[i] = s[j] => i = j}

\* Python's round() on a non-negative exact quotient n/d: nearest integer,
\* a tie going to the even neighbour
RoundHalfEven(n, d) ==
    LET q == n \div d
        r == n % d
    IN  IF 2 * r < d THEN q
        ELSE IF 2 * r > d THEN q + 1
        ELSE IF q % 2 = 0 THEN q ELSE q + 1

\* round(n/d, 2), in hundredths
Round2(n, d) == RoundHalfEven(100 * n, d)

RECURSIVE GCD(_, _)
GCD(a, b) == IF b = 0 THEN a ELSE GCD(b, a % b)

\* exact quotients <<n, d>>, n >= 0 and d > 0, kept in lowest terms
Reduce(q) == LET g == GCD(q[1], q[2]) IN <<q[1] \div g, q[2] \div g>>
RatAdd(a, b) == Reduce(<<a[1] * b[2] + b[1] * a[2], a[2] * b[2]>>)
RatEq(a, b) == a[1] * b[2] = b[1] * a[2]

\* the sum of a sequence of quotients, by halves
RECURSIVE RatRange(_, _, _)
RatRange(s, lo, hi) ==
    IF lo > hi THEN <<0, 1>>
    ELSE IF lo = hi THEN Reduce(s[lo])
    ELSE LET mid == (lo + hi) \div 2
         IN  RatAdd(RatRange(s, lo, mid), RatRange(s, mid + 1, hi))
RatSum(s) == RatRange(s, 1, Len(s))

(***************************** the upstream API ****************************)
\* What make_youtube_request hands back: None, or the decoded JSON object.
\* A JSON object is given by its set of keys and the value of "items".
None == [ok |-> FALSE, keys |-> {}, items |-> <<>>]
Dict(keys, items) == [ok |-> TRUE, keys |-> keys, items |-> items]

\* `if data` : None and the empty object are falsy
Truthy(d) == d.ok /\ d.keys # {}
\* `data and data.get('items')` : a non-empty "items" list is present
HasItems(d) == Truthy(d) /\ "items" \in d.keys /\ d.items # <<>>
\* data['items'] raises KeyError when the key is absent
KeyErrorOnItems(d) == "items" \notin d.keys

\* What the HTTP exchange itself can come to: a transport exception (timeout
\* included), a status code, and a body that decodes to a JSON object or not.
Outcome(exc, status, json, keys, items) ==
    [exc |-> exc, status |-> status, json |-> json, keys |-> keys, items |-> items]
NoOutcome == Outcome(FALSE, 0, FALSE, {}, <<>>)
TransportFailure == Outcome(TRUE, 0, FALSE, {}, <<>>)
HttpError == Outcome(FALSE, 403, FALSE, {}, <<>>)
BadJson == Outcome(FALSE, 200, FALSE, {}, <<>>)
EmptyObject == Outcome(FALSE, 200, TRUE, {}, <<>>)
NoItemsObject == Outcome(FALSE, 200, TRUE, {"kind"}, <<>>)
ItemsObject(items) == Outcome(FALSE, 200, TRUE, {"kind", "items"}, items)

\* every outcome of a call whose item list, if any, is one of lists
Outcomes(lists) ==
    {TransportFailure, HttpError, BadJson, EmptyObject, NoItemsObject}
        \cup {ItemsObject(l) : l \in lists}

\* make_youtube_request, from the answer of requests.get on
make_youtube_request(o) ==
    IF o.exc THEN None
    ELSE IF o.status # 200 THEN None
    ELSE IF ~o.json THEN None
    ELSE Dict(o.keys, o.items)

\* the parameters of an upstream call: name and value of the parameter that
\* selects the resource, and the fixed ones
Params(part, key, arg, type, order, maxResults) ==
    [part |-> part, key |-> key, arg |-> arg, type |-> type, order |-> order,
     maxResults |-> maxResults]

Call(endpoint, params) ==
    [endpoint |-> endpoint, params |-> params, returned |-> FALSE,
     outcome |-> NoOutcome, data |-> None]

Pending == calls # <<>> /\ ~calls[Len(calls)].returned
LastData == calls[Len(calls)].data

\* requests.get is entered: the call is on the wire
Issue(endpoint, params) == calls' = Append(calls, Call(endpoint, params))

(***************************** responses ***********************************)
NoResp == [status |-> 0, body |-> [pending |-> TRUE], raised |-> "none"]
Json(status, body) == [status |-> status, body |-> body, raised |-> "none"]
\* an exception escaping a handler is answered by the 500 error handler
Raise(exception) ==
    [status |-> 500, body |-> [error |-> "Internal server error"], raised |-> exception]
Null == [null |-> TRUE]
\* the locals of a handler that has assigned none yet
NoLoc == [none |-> TRUE]

(***************************** shared data *********************************)
\* one-character strings
startswith(s, p) == Len(s) >= Len(p) /\ SubSeq(s, 1, Len(p)) = p

\* the length the code takes a channel id to have
IdLen == 24

Pad(n) == [i \in 1..n |-> "a"]

\* an ISO-8601 duration as the upstream sends it, or a malformed one
Iso(h, m, s) == [valid |-> TRUE, h |-> h, m |-> m, s |-> s]
BadDuration == [valid |-> FALSE, h |-> 0, m |-> 0, s |-> 0]

\* parse_duration: total seconds, 0 when the string does not parse
parse_duration(duration) ==
    IF duration.valid THEN duration.h * 3600 + duration.m * 60 + duration.s ELSE 0

\* the statistics and contentDetails of a video, as the videos resource has them
Stats(views, likes, comments, duration) ==
    [viewCount |-> views, likeCount |-> likes, commentCount |-> comments,
     duration |-> duration]

StatKinds ==
    {Stats(0, 5, 3, Iso(0, 4, 59)), Stats(100, 1, 0, Iso(0, 5, 0)),
     Stats(200, 5, 3, Iso(0, 19, 59)), Stats(40, 2, 0, Iso(0, 20, 0)),
     Stats(3, 1, 0, BadDuration)}

(************************ the channel endpoint *****************************)
InputLens == {n \in 1..MaxInputLen : n <= 3 \/ n >= IdLen - 1}
Prefixes == {<<>>, <<"@">>, <<"U", "C">>, <<"U">>, <<"@", "U", "C">>}
ChannelInputs ==
    {p \o Pad(n - Len(p)) : <<p, n>> \in {x \in Prefixes \X InputLens : x[2] >= Len(x[1])}}

\* channel ids the upstream search can come back with
FoundIds == {<<"U", "C", "x">> \o Pad(IdLen - 3), <<"U", "C", "y">> \o Pad(IdLen - 3)}
Hit(id) == [channelId |-> id]
ChannelHits ==
    {<<>>} \cup {<<Hit(a)>> : a \in FoundIds}
        \cup {<<Hit(a), Hit(b)>> : <<a, b>> \in {x \in FoundIds \X FoundIds : x[1] # x[2]}}

TheChannel == [title |-> "Channel", subscriberCount |-> 1500, videoCount |-> 12, viewCount |-> 999]

RecentItem(i) == [videoId |-> i, title |-> i, publishedAt |-> 10 * i]
RecentLists == {[i \in 1..n |-> RecentItem(i)] : n \in 0..MaxRecent}
\* the videos resource leaves out the ids it cannot show: at most as many
\* entries as ids asked for
DetailLists(n) == SeqsUpTo(StatKinds, n)

\* line 268 with `or` for `and`
LooksLikeName_Or(channel_input) ==
    ~startswith(channel_input, <<"U", "C">>) \/ Len(channel_input) # IdLen

\* line 268: the input does not look like a channel id
LooksLikeName(channel_input) ==
    ~startswith(channel_input, <<"U", "C">>) /\ Len(channel_input) # IdLen

\* lines 265-270: which name, if any, is searched for (<<>> stands for None)
ResolutionSearch(channel_input) ==
    IF startswith(channel_input, <<"@">>) THEN [search |-> TRUE, name |-> Drop(channel_input, 1)]
    ELSE IF LooksLikeName(channel_input) THEN [search |-> TRUE, name |-> channel_input]
    ELSE [search |-> FALSE, name |-> <<>>]

\* lines 243-248
ChannelSearchParams(name) == Params("snippet", "q", name, "channel", "", 1)

\* lines 250-256: the id of the first hit, or None (<<>>)
get_channel_id_from_name(search_data) ==
    IF HasItems(search_data) THEN search_data.items[1].channelId ELSE <<>>

\* lines 275-279 without the check of lines 272-273
channel_Resolved_Unchecked(channel_id) ==
    /\ Issue("channels", Params("snippet,statistics,brandingSettings", "id", channel_id, "", "", 0))
    /\ loc' = [channel_id |-> channel_id]
    /\ pc' = "channel_channels"
    /\ UNCHANGED resp

\* lines 272-279: 404 for an unresolved input, else the channels call
channel_Resolved(channel_id) ==
    IF channel_id = <<>>
    THEN /\ resp' = Json(404, [error |-> "Channel not found"])
         /\ pc' = "done"
         /\ UNCHANGED <<calls, loc>>
    ELSE /\ Issue("channels", Params("snippet,statistics,brandingSettings", "id", channel_id, "", "", 0))
         /\ loc' = [channel_id |-> channel_id]
         /\ pc' = "channel_channels"
         /\ UNCHANGED resp

\* lines 259-279, up to the first upstream call
channel_Start ==
    /\ pc = "channel_start"
    /\ LET r == ResolutionSearch(req.input)
       IN  IF r.search
           THEN /\ Issue("search", ChannelSearchParams(r.name))
                /\ pc' = "channel_resolve"
                /\ UNCHANGED <<loc, resp>>
           ELSE channel_Resolved(req.input)
    /\ UNCHANGED req

\* lines 250-256 and 272-279, once the resolution search has returned
channel_AfterSearch ==
    /\ pc = "channel_resolve"
    /\ ~Pending
    /\ channel_Resolved(get_channel_id_from_name(LastData))
    /\ UNCHANGED req

\* lines 281-295 with the channels call tried again when it gave nothing
channel_AfterChannels_Retry ==
    /\ pc = "channel_channels"
    /\ ~Pending
    /\ IF ~HasItems(LastData)
       THEN IF Len(calls) < 3
            THEN /\ Issue("channels", calls[Len(calls)].params)
                 /\ UNCHANGED <<pc, loc, resp>>
            ELSE /\ resp' = Json(404, [error |-> "Channel data not found"])
                 /\ pc' = "done"
                 /\ UNCHANGED <<calls, loc>>
       ELSE /\ Issue("search", Params("snippet", "channelId", loc.channel_id, "video", "date", 10))
            /\ loc' = [channel_id |-> loc.channel_id, channel |-> LastData.items[1]]
            /\ pc' = "channel_videos"
            /\ UNCHANGED resp
    /\ UNCHANGED req

\* lines 281-295
channel_AfterChannels ==
    /\ pc = "channel_channels"
    /\ ~Pending
    /\ IF ~HasItems(LastData)
       THEN /\ resp' = Json(404, [error |-> "Channel data not found"])
            /\ pc' = "done"
            /\ UNCHANGED <<calls, loc>>
       ELSE /\ Issue("search", Params("snippet", "channelId", loc.channel_id, "video", "date", 10))
            /\ loc' = [channel_id |-> loc.channel_id, channel |-> LastData.items[1]]
            /\ pc' = "channel_videos"
            /\ UNCHANGED resp
    /\ UNCHANGED req

\* lines 317-318: the two averages, the second in hundredths
avg_views_per_video(video_stats) ==
    IF video_stats = <<>> THEN 0
    ELSE RoundHalfEven(SumSeq([i \in 1..Len(video_stats) |-> video_stats[i].views]),
                       Len(video_stats))

avg_engagement(video_stats) ==
    IF video_stats = <<>> THEN 0
    ELSE LET total == RatSum([i \in 1..Len(video_stats) |->
                          <<(video_stats[i].likes + video_stats[i].comments) * 100,
                            Max(video_stats[i].views, 1)>>])
         IN  Round2(total[1], total[2] * Len(video_stats))

\* lines 321-328
duration_analysis(video_stats) ==
    LET n(P(_)) == Cardinality({i \in 1..Len(video_stats) : P(video_stats[i].duration)})
        short(d) == d < 300
        medium(d) == ~(d < 300) /\ d < 1200
        long(d) == ~(d < 300) /\ ~(d < 1200)
    IN  [short |-> n(short), medium |-> n(medium), long |-> n(long)]

\* line 355: max() keeps the first of the most viewed
top_performing(video_stats) ==
    IF video_stats = <<>> THEN Null
    ELSE video_stats[CHOOSE i \in 1..Len(video_stats) :
             /\ \A j \in 1..Len(video_stats) : video_stats[j].views <= video_stats[i].views
             /\ \A j \in 1..(i - 1) : video_stats[j].views < video_stats[i].views]

\* lines 346-350: the views of the series, for i = 7 down to 0
trendData(video_stats) ==
    [k \in 1..8 |->
        LET i == 8 - k
        IN  IF i < Len(video_stats)
            THEN SumSeq([j \in 1..Len(LastN(video_stats, i + 1)) |->
                            LastN(video_stats, i + 1)[j].views])
            ELSE 0]

\* lines 316-359
channel_Result(video_stats) ==
    Json(200,
         [channel |-> [id |-> loc.channel_id, title |-> loc.channel.title],
          recentVideos |-> video_stats,
          trendData |-> trendData(video_stats),
          enhancedAnalytics |->
              [avgViewsPerVideo |-> avg_views_per_video(video_stats),
               avgEngagementRate |-> avg_engagement(video_stats),
               contentDistribution |-> duration_analysis(video_stats),
               topPerformingVideo |-> top_performing(video_stats)]])

\* lines 297-303; with no recent videos, straight to lines 316-359
channel_AfterVideos ==
    /\ pc = "channel_videos"
    /\ ~Pending
    /\ IF HasItems(LastData)
       THEN /\ Issue("videos", Params("statistics,contentDetails", "id",
                         [i \in 1..Len(LastData.items) |-> LastData.items[i].videoId], "", "", 0))
            /\ loc' = [channel_id |-> loc.channel_id, channel |-> loc.channel,
                       videos_data |-> LastData]
            /\ pc' = "channel_details"
            /\ UNCHANGED resp
       ELSE /\ resp' = channel_Result(<<>>)
            /\ pc' = "done"
            /\ UNCHANGED <<calls, loc>>
    /\ UNCHANGED req

\* line 305: the guard on the details before they are walked
DetailsUsable(video_details) == Truthy(video_details)

\* lines 306-314
video_stats_of(videos_data, video_details) ==
    [i \in 1..Len(video_details.items) |->
        [title |-> videos_data.items[i].title,
         publishedAt |-> videos_data.items[i].publishedAt,
         views |-> video_details.items[i].viewCount,
         likes |-> video_details.items[i].likeCount,
         comments |-> video_details.items[i].commentCount,
         duration |-> parse_duration(video_details.items[i].duration)]]

\* lines 305-359
channel_AfterDetails ==
    /\ pc = "channel_details"
    /\ ~Pending
    /\ resp' = IF ~DetailsUsable(LastData) THEN channel_Result(<<>>)
               ELSE IF KeyErrorOnItems(LastData) THEN Raise("KeyError")
               ELSE channel_Result(video_stats_of(loc.videos_data, LastData))
    /\ pc' = "done"
    /\ UNCHANGED <<req, calls, loc>>

(************************ the sentiment classifier *************************)
\* most fragments a generated text is made of
MaxFragments == 3

UpperCase ==
    <<"A", "B", "C", "D", "E", "F", "G", "H", "I", "J", "K", "L", "M", "N", "O", "P", "Q", "R", "S", "T", "U", "V", "W", "X", "Y", "Z">>
LowerCase ==
    <<"a", "b", "c", "d", "e", "f", "g", "h", "i", "j", "k", "l", "m", "n", "o", "p", "q", "r", "s", "t", "u", "v", "w", "x", "y", "z">>

\* str.lower, character by character
lower(text) ==
    [i \in 1..Len(text) |->
        IF \E k \in 1..26 : UpperCase[k] = text[i]
        THEN LowerCase[CHOOSE k \in 1..26 : UpperCase[k] = text[i]]
        ELSE text[i]]

\* `word in text` on strings: word occurs as a substring
Contains(text, word) ==
    \E k \in 0..(Len(text) - Len(word)) : SubSeq(text, k + 1, k + Len(word)) = word

\* line 98
positive_words ==
    <<<<"g", "o", "o", "d">>,
      <<"g", "r", "e", "a", "t">>,
      <<"a", "w", "e", "s", "o", "m", "e">>,
      <<"a", "m", "a", "z", "i", "n", "g">>,
      <<"l", "o", "v", "e">>,
      <<"e", "x", "c", "e", "l", "l", "e", "n", "t">>,
      <<"p", "e", "r", "f", "e", "c", "t">>,
      <<"b", "e", "s", "t">>,
      <<"w", "o", "n", "d", "e", "r", "f", "u", "l">>,
      <<"f", "a", "n", "t", "a", "s", "t", "i", "c">>,
      <<"n", "i", "c", "e">>,
      <<"b", "e", "a", "u", "t", "i", "f", "u", "l">>,
      <<"c", "o", "o", "l">>,
      <<"t", "h", "a", "n", "k", "s">>,
      <<"t", "h", "a", "n", "k">>>>

\* line 99
negative_words ==
    <<<<"b", "a", "d">>,
      <<"h", "a", "t", "e">>,
      <<"t", "e", "r", "r", "i", "b", "l", "e">>,
      <<"a", "w", "f", "u", "l">>,
      <<"w", "o", "r", "s", "t">>,
      <<"s", "t", "u", "p", "i", "d">>,
      <<"b", "o", "r", "i", "n", "g">>,
      <<"s", "u", "c", "k", "s">>,
      <<"d", "i", "s", "a", "p", "p", "o", "i", "n", "t", "i", "n", "g">>,
      <<"u", "s", "e", "l", "e", "s", "s">>,
      <<"g", "a", "r", "b", "a", "g", "e">>,
      <<"t", "r", "a", "s", "h">>,
      <<"h", "o", "r", "r", "i", "b", "l", "e">>>>

\* line 101 without the case folding
text_lower_Unfolded(text) == text

\* line 101
text_lower(text) == lower(text)

\* lines 102-103: sum(1 for word in words if word in text_lower)
term_count(words, text) ==
    SumSeq([i \in 1..Len(words) |-> IF Contains(text, words[i]) THEN 1 ELSE 0])

\* lines 96-110
analyze_sentiment(text) ==
    LET positive_count == term_count(positive_words, text_lower(text))
        negative_count == term_count(negative_words, text_lower(text))
    IN  IF positive_count > negative_count THEN "positive"
        ELSE IF negative_count > positive_count THEN "negative"
        ELSE "neutral"

Fragments ==
    {<<"g", "o", "o", "d", " ">>,
     <<"G", "R", "E", "A", "T", " ">>,
     <<"b", "a", "d", " ">>,
     <<"A", "w", "f", "u", "l", " ">>,
     <<"t", "h", "a", "n", "k", "s", " ">>,
     <<"v", "i", "d", "e", "o", " ">>,
     <<"b", "a", "d", "g", "e", " ">>}

RECURSIVE Concat(_)
Concat(ss) == IF ss = <<>> THEN <<>> ELSE Head(ss) \o Concat(Tail(ss))

ExampleTexts ==
    {<<"T", "h", "i", "s", " ", "i", "s", " ", "g", "r", "e", "a", "t", " ", "a", "n", "d", " ", "a", "w", "e", "s", "o", "m", "e">>,
     <<"T", "h", "i", "s", " ", "i", "s", " ", "t", "e", "r", "r", "i", "b", "l", "e", " ", "a", "n", "d", " ", "a", "w", "f", "u", "l">>,
     <<"I", "t", " ", "i", "s", " ", "a", " ", "v", "i", "d", "e", "o">>}

Texts == {Concat(fs) : fs \in SeqsUpTo(Fragments, MaxFragments)} \cup ExampleTexts

InitSentiment ==
    /\ req \in {[endpoint |-> "sentiment", text |-> t] : t \in Texts}
    /\ pc = "sentiment_start"
    /\ calls = <<>>
    /\ loc = NoLoc
    /\ resp = NoResp

\* one application of analyze_sentiment to the text
sentiment_Classify ==
    /\ pc = "sentiment_start"
    /\ loc' = [sentiment |-> analyze_sentiment(req.text)]
    /\ pc' = "done"
    /\ UNCHANGED <<req, calls, resp>>

NextSentiment == sentiment_Classify

SpecSentiment == InitSentiment /\ [][NextSentiment]_vars

(************************** the video endpoint ******************************)
\* most items in the same-channel listing of the video endpoint
MaxRelated == 3
\* most comments in an answer of commentThreads
MaxComments == 21
\* get_utc_now, in hours
Now == 1000

\* parse_youtube_datetime: a well-formed timestamp is the instant it names
parse_youtube_datetime(date_string) == date_string

\* timedelta.days of later - earlier, hours apart: whole days, rounded down
days(later, earlier) == (later - earlier) \div 24

\* Python's a / b on numbers: the exact quotient, or ZeroDivisionError
ZeroDivisionError == <<0, 0>>
Div(a, b) == IF b = 0 THEN ZeroDivisionError ELSE <<a, b>>
\* round(q, 2) of a quotient, in hundredths
RoundQ(q) == Round2(q[1], q[2])

TheVideoId == "v0"
VideoIds == {TheVideoId}
TheChannelId == <<"U", "C", "v">> \o Pad(IdLen - 3)

VideoItem(stats) ==
    [title |-> "Video", channelId |-> TheChannelId, publishedAt |-> Now - 100,
     viewCount |-> stats.viewCount, likeCount |-> stats.likeCount,
     commentCount |-> stats.commentCount, duration |-> stats.duration]
VideoKinds ==
    {VideoItem(Stats(0, 5, 3, Iso(0, 4, 59))), VideoItem(Stats(200, 5, 3, Iso(0, 19, 59))),
     VideoItem(Stats(3, 1, 0, BadDuration))}

\* an item of the same-channel search: the video itself and two others,
\* published 5 hours after it and 72 hours before it
Related(id, publishedAt) == [videoId |-> id, title |-> id, publishedAt |-> publishedAt]
RelatedKinds ==
    {Related(TheVideoId, Now - 100), Related("v1", Now - 95), Related("v2", Now - 172)}
RelatedLists == SeqsUpTo(RelatedKinds, MaxRelated)

\* the comments kept in the answer
CommentCap == 20
\* the related videos kept in the answer
RelatedCap == 3

Comment(text) == [textDisplay |-> text, likeCount |-> 1, publishedAt |-> Now - 50]
CommentKinds ==
    {Comment(<<"G", "o", "o", "d">>), Comment(<<"b", "a", "d">>), Comment(<<"o", "k">>)}
CommentLists ==
    {<<>>} \cup
    {Cycle(p, n) : <<p, n>> \in
        {x \in DistinctSeqs(CommentKinds) \X (1..MaxComments) :
            x[2] = Len(x[1]) \/ x[2] >= CommentCap}}

\* line 385 without its guard on views
views_positive_Unguarded(views) == views >= 0

\* lines 385, 437, 438: the guard `if views > 0`
views_positive(views) == views > 0

\* line 385
engagement_rate(views, likes, comments) ==
    IF views_positive(views) THEN Div((likes + comments) * 100, views) ELSE <<0, 1>>

\* line 437 (and 438, with comments for likes)
to_views_ratio(count, views) ==
    IF views_positive(views) THEN Div(count * 100, views) ELSE <<0, 1>>

\* line 436
viewsPerHour(views, publishedAt) ==
    IF views_positive(views) THEN Div(views, Now - parse_youtube_datetime(publishedAt))
    ELSE <<0, 1>>

\* lines 363-369
video_Start ==
    /\ pc = "video_start"
    /\ Issue("videos", Params("snippet,statistics,contentDetails", "id", <<req.video_id>>, "", "", 0))
    /\ pc' = "video_video"
    /\ UNCHANGED <<req, loc, resp>>

\* lines 371-394
video_AfterVideo ==
    /\ pc = "video_video"
    /\ ~Pending
    /\ IF ~HasItems(LastData)
       THEN /\ resp' = Json(404, [error |-> "Video not found or API error"])
            /\ pc' = "done"
            /\ UNCHANGED <<calls, loc>>
       ELSE LET video == LastData.items[1]
            IN  /\ loc' = [video |-> video,
                           engagement_rate |->
                               engagement_rate(video.viewCount, video.likeCount,
                                               video.commentCount)]
                /\ IF loc'.engagement_rate = ZeroDivisionError
                   THEN /\ resp' = Raise("ZeroDivisionError")
                        /\ pc' = "done"
                        /\ UNCHANGED calls
                   ELSE /\ Issue("search", Params("snippet", "channelId", video.channelId,
                                                  "video", "relevance", 5))
                        /\ pc' = "video_related"
                        /\ UNCHANGED resp
    /\ UNCHANGED req

\* SelectSeq with the test x.videoId # video_id
RECURSIVE without(_, _)
without(items, video_id) ==
    IF items = <<>> THEN <<>>
    ELSE IF Head(items).videoId # video_id
         THEN <<[id |-> Head(items).videoId, title |-> Head(items).title]>>
                  \o without(Tail(items), video_id)
         ELSE without(Tail(items), video_id)

\* lines 396-404
related_videos(channel_videos, video_id) ==
    IF HasItems(channel_videos) THEN without(channel_videos.items, video_id) ELSE <<>>

\* lines 396-407 and 114-119
video_AfterRelated ==
    /\ pc = "video_related"
    /\ ~Pending
    /\ loc' = [video |-> loc.video, engagement_rate |-> loc.engagement_rate,
               channel_videos |-> LastData,
               related_videos |-> related_videos(LastData, req.video_id)]
    /\ Issue("commentThreads", Params("snippet", "videoId", <<req.video_id>>, "", "relevance", 50))
    /\ pc' = "video_comments"
    /\ UNCHANGED <<req, resp>>

\* lines 140-145
comment_record(item) ==
    [text |-> IF Len(item.textDisplay) > 100
              THEN Take(item.textDisplay, 100) \o <<".", ".", ".">>
              ELSE item.textDisplay,
     likeCount |-> item.likeCount,
     sentiment |-> analyze_sentiment(item.textDisplay),
     publishedAt |-> item.publishedAt]

\* line 148 and 152-156: Counter(sentiments).get(label, 0)
sentiment_count(sentiments, label) ==
    Cardinality({i \in 1..Len(sentiments) : sentiments[i] = label})

\* line 158 with the total taken of the capped list
totalComments_Capped(comments) == Len(Take(comments, CommentCap))

\* line 158
totalComments(comments) == Len(comments)

\* lines 121-159, the word histogram left out
get_video_comments_analysis(comments_data) ==
    IF ~HasItems(comments_data) THEN Null
    ELSE LET comments == [i \in 1..Len(comments_data.items) |->
                             comment_record(comments_data.items[i])]
             sentiments == [i \in 1..Len(comments_data.items) |->
                               analyze_sentiment(comments_data.items[i].textDisplay)]
         IN  [comments |-> Take(comments, CommentCap),
              sentimentDistribution |->
                  [positive |-> sentiment_count(sentiments, "positive"),
                   negative |-> sentiment_count(sentiments, "negative"),
                   neutral |-> sentiment_count(sentiments, "neutral")],
              totalComments |-> totalComments(comments)]

\* lines 412-415: the first and the last item stand for the latest and the
\* oldest; the quotient is taken only when a whole day lies between them
upload_frequency_of(items) ==
    LET latest == parse_youtube_datetime(items[1].publishedAt)
        oldest == parse_youtube_datetime(items[Len(items)].publishedAt)
        days_diff == days(latest, oldest)
    IN  IF days_diff > 0 THEN Div(Len(items), Max(days_diff, 1)) ELSE <<0, 1>>

\* lines 410-415, the KeyError of channel_videos['items'] apart
upload_frequency(channel_videos) ==
    IF Truthy(channel_videos) /\ Len(channel_videos.items) > 1
    THEN upload_frequency_of(channel_videos.items)
    ELSE <<0, 1>>

\* lines 417-445
video_Result(comments_analysis) ==
    LET video == loc.video
        vph == viewsPerHour(video.viewCount, video.publishedAt)
        ltv == to_views_ratio(video.likeCount, video.viewCount)
        ctv == to_views_ratio(video.commentCount, video.viewCount)
        uf == upload_frequency(loc.channel_videos)
    IN  IF ZeroDivisionError \in {vph, ltv, ctv, uf} THEN Raise("ZeroDivisionError")
        ELSE Json(200,
                  [video |-> [id |-> req.video_id,
                              channelId |-> video.channelId,
                              duration |-> parse_duration(video.duration),
                              viewCount |-> video.viewCount,
                              likeCount |-> video.likeCount,
                              commentCount |-> video.commentCount,
                              engagementRate |-> RoundQ(loc.engagement_rate)],
                   analytics |-> [viewsPerHour |-> RoundQ(vph),
                                  likesToViewsRatio |-> RoundQ(ltv),
                                  commentsToViewsRatio |-> RoundQ(ctv),
                                  uploadFrequency |-> RoundQ(uf)],
                   relatedVideos |-> Take(loc.related_videos, RelatedCap),
                   commentsAnalysis |-> comments_analysis])

\* lines 121-159 and 409-445, once commentThreads has returned
video_AfterComments ==
    /\ pc = "video_comments"
    /\ ~Pending
    /\ resp' = IF Truthy(loc.channel_videos) /\ KeyErrorOnItems(loc.channel_videos)
               THEN Raise("KeyError")
               ELSE video_Result(get_video_comments_analysis(LastData))
    /\ pc' = "done"
    /\ UNCHANGED <<req, calls, loc>>

InitVideo ==
    /\ req \in {[endpoint |-> "video", video_id |-> v] : v \in VideoIds}
    /\ pc = "video_start"
    /\ calls = <<>>
    /\ loc = NoLoc
    /\ resp = NoResp

(************************* the trending endpoint ****************************)
\* most items in an answer of the most-popular listing or the fallback search
MaxTrending == 31
\* longest pattern a long trending list repeats
MaxTrendPattern == 3
\* longest pattern a long fallback list repeats
MaxFallbackPattern == 2

\* the entries kept in the answer
TrendingCap == 30

QuotaMessage == "No trending data available. This might be due to API quotas or restrictions."

\* an item of the most-popular listing, without its place in the listing
Popular(views, likes, comments, duration, age) ==
    [publishedAt |-> Now - age, viewCount |-> views, likeCount |-> likes,
     commentCount |-> comments, duration |-> duration]
PopularKinds ==
    {Popular(100, 1, 0, Iso(0, 4, 59), 10), Popular(100, 1, 1, Iso(0, 5, 0), 2),
     Popular(90, 9, 0, Iso(0, 20, 0), 3), Popular(200, 5, 5, Iso(0, 19, 59), 20),
     Popular(0, 5, 3, BadDuration, 0)}

\* the listing that gives place i the i-th item of the pattern, and its place as id
Listing(pattern, n) ==
    [i \in 1..n |->
        LET k == pattern[((i - 1) % Len(pattern)) + 1]
        IN  [id |-> i, publishedAt |-> k.publishedAt, viewCount |-> k.viewCount,
             likeCount |-> k.likeCount, commentCount |-> k.commentCount,
             duration |-> k.duration]]

\* a long list, or one as long as its pattern
Lengths(pattern, most) == {n \in 1..most : n = Len(pattern) \/ n >= TrendingCap}

PopularLists ==
    {<<>>} \cup
    {Listing(x[1], x[2]) : x \in
        {y \in (SeqsUpTo(PopularKinds, MaxTrendPattern) \ {<<>>}) \X (1..MaxTrending) :
            y[2] \in Lengths(y[1], MaxTrending)}}

\* the fallback search: items published 2 or 10 hours ago
FallbackAges == {2, 10}
FallbackList(pattern, n) ==
    [i \in 1..n |-> [videoId |-> i, title |-> i,
                     publishedAt |-> Now - pattern[((i - 1) % Len(pattern)) + 1]]]
FallbackLists ==
    {<<>>} \cup
    {FallbackList(x[1], x[2]) : x \in
        {y \in (SeqsUpTo(FallbackAges, MaxFallbackPattern) \ {<<>>}) \X (1..MaxTrending) :
            y[2] \in Lengths(y[1], MaxTrending)}}

FallbackStats ==
    {Stats(100, 1, 0, Iso(0, 4, 59)), Stats(20, 1, 0, Iso(0, 20, 0)), Stats(0, 5, 3, BadDuration)}
\* the details of n ids: all of them, all but the last, or a short list
FallbackDetailLists(n) ==
    {<<>>} \cup
    {Cycle(x[1], x[2]) : x \in
        {y \in (SeqsUpTo(FallbackStats, MaxFallbackPattern) \ {<<>>}) \X (1..n) :
            y[2] = Len(y[1]) \/ y[2] >= n - 1}}

\* lines 507 and 532, in hundredths
viewVelocity(views, publishedAt) ==
    LET hours_since_publish == Now - parse_youtube_datetime(publishedAt)
    IN  IF hours_since_publish > 0 THEN Round2(views, hours_since_publish) ELSE 0

\* lines 512-534
popular_entries(items) ==
    [i \in 1..Len(items) |->
        [id |-> items[i].id,
         publishedAt |-> items[i].publishedAt,
         viewCount |-> items[i].viewCount,
         likeCount |-> items[i].likeCount,
         commentCount |-> items[i].commentCount,
         viewVelocity |-> viewVelocity(items[i].viewCount, items[i].publishedAt),
         duration |-> parse_duration(items[i].duration)]]

\* lines 489-509: search item i with details item i, while there are details
fallback_entries(items, details) ==
    [i \in 1..Min(Len(items), Len(details)) |->
        [id |-> items[i].videoId,
         publishedAt |-> items[i].publishedAt,
         viewCount |-> details[i].viewCount,
         likeCount |-> details[i].likeCount,
         commentCount |-> details[i].commentCount,
         viewVelocity |-> viewVelocity(details[i].viewCount, items[i].publishedAt),
         duration |-> parse_duration(details[i].duration)]]

\* the place entry i takes in a stable sort by falling velocity: behind every
\* faster entry and every equally fast entry that came before it
place_stable(videos, i) ==
    1 + Cardinality({j \in 1..Len(videos) :
                        \/ videos[j].viewVelocity > videos[i].viewVelocity
                        \/ videos[j].viewVelocity = videos[i].viewVelocity /\ j < i})

\* the place entry i takes when an ascending sort is read backwards: equally
\* fast entries come out in reverse
place_reversed(videos, i) ==
    1 + Cardinality({j \in 1..Len(videos) :
                        \/ videos[j].viewVelocity > videos[i].viewVelocity
                        \/ videos[j].viewVelocity = videos[i].viewVelocity /\ j > i})

\* line 537 as sorted(...)[::-1] would do it
sort_by_velocity_Reversed(trending_videos) ==
    LET n == Len(trending_videos)
        places == [i \in 1..n |-> place_reversed(trending_videos, i)] \o <<>>
    IN  [r \in 1..n |-> trending_videos[CHOOSE i \in 1..n : places[i] = r]]

\* line 537: list.sort(key=viewVelocity, reverse=True), which is stable:
\* every entry is moved to its place
sort_by_velocity(trending_videos) ==
    LET n == Len(trending_videos)
        places == [i \in 1..n |-> place_stable(trending_videos, i)] \o <<>>
    IN  [r \in 1..n |-> trending_videos[CHOOSE i \in 1..n : places[i] = r]]

\* lines 543-548
duration_category(duration) ==
    IF duration < 300 THEN "Short" ELSE IF duration < 1200 THEN "Medium" ELSE "Long"

\* lines 554, 563, 579: (likes + comments) / max(views, 1) * 100
engagement_of(video) ==
    <<(video.likeCount + video.commentCount) * 100, Max(video.viewCount, 1)>>

\* lines 564-569
engagement_band(rate) ==
    IF rate[1] < 2 * rate[2] THEN "Low (0-2%)"
    ELSE IF rate[1] < 5 * rate[2] THEN "Medium (2-5%)"
    ELSE "High (5%+)"

\* lines 540-558 and 581-584: one row per category, in the order the
\* categories first turn up
category_order(videos) ==
    LET cats == {duration_category(videos[i].duration) : i \in 1..Len(videos)}
        first(c) == CHOOSE i \in 1..Len(videos) :
                        /\ duration_category(videos[i].duration) = c
                        /\ \A j \in 1..(i - 1) : duration_category(videos[j].duration) # c
    IN  [k \in 1..Cardinality(cats) |->
            CHOOSE c \in cats : Cardinality({d \in cats : first(d) < first(c)}) = k - 1]

categoryBreakdown(videos) ==
    LET order == category_order(videos)
        row(cat) ==
            LET in(v) == duration_category(v.duration) = cat
                members == SelectSeq(videos, in)
                totalViews == SumSeq([i \in 1..Len(members) |-> members[i].viewCount])
                total == RatSum([i \in 1..Len(members) |-> engagement_of(members[i])])
            IN  [category |-> cat, count |-> Len(members),
                 avgViews |-> totalViews \div Len(members),
                 avgEngagement |-> Round2(total[1], total[2] * Len(members))]
    IN  [i \in 1..Len(order) |-> row(order[i])]

\* lines 561-569 and 585-588
engagementDistribution(videos) ==
    LET n(band) == Cardinality({i \in 1..Len(videos) :
                                   engagement_band(engagement_of(videos[i])) = band})
    IN  <<[range |-> "Low (0-2%)", count |-> n("Low (0-2%)")],
          [range |-> "Medium (2-5%)", count |-> n("Medium (2-5%)")],
          [range |-> "High (5%+)", count |-> n("High (5%+)")]>>

\* lines 574-580
summary(videos) ==
    LET totalViews == SumSeq([i \in 1..Len(videos) |-> videos[i].viewCount])
        total == RatSum([i \in 1..Len(videos) |-> engagement_of(videos[i])])
    IN  [totalVideos |-> Len(videos),
         totalViews |-> totalViews,
         averageViews |-> IF videos # <<>> THEN totalViews \div Len(videos) ELSE 0,
         topPerformer |-> IF videos # <<>> THEN videos[1] ELSE Null,
         avgEngagement |-> IF videos # <<>> THEN <<total[1], total[2] * Len(videos)>>
                           ELSE <<0, 1>>]

\* lines 536-591 with the aggregates taken of the 30 entries answered
trending_Result_Capped(built) ==
    LET trending_videos == Take(sort_by_velocity(built), TrendingCap)
    IN  Json(200,
             [trendingVideos |-> trending_videos,
              region |-> req.region_code,
              summary |-> summary(trending_videos),
              categoryBreakdown |-> categoryBreakdown(trending_videos),
              engagementDistribution |-> engagementDistribution(trending_videos)])

\* lines 536-591
trending_Result(built) ==
    LET trending_videos == sort_by_velocity(built)
    IN  Json(200,
             [trendingVideos |-> Take(trending_videos, TrendingCap),
              region |-> req.region_code,
              summary |-> summary(trending_videos),
              categoryBreakdown |-> categoryBreakdown(trending_videos),
              engagementDistribution |-> engagementDistribution(trending_videos)])

\* lines 449-459
trending_Start ==
    /\ pc = "trending_start"
    /\ Issue("videos", Params("snippet,statistics,contentDetails", "chart",
                              <<"mostPopular", req.region_code>>, "", "", 50))
    /\ pc' = "trending_primary"
    /\ UNCHANGED <<req, loc, resp>>

\* line 461
primary_empty(trending_data) == ~HasItems(trending_data)

\* lines 461-473 and 511-591
trending_AfterPrimary ==
    /\ pc = "trending_primary"
    /\ ~Pending
    /\ IF primary_empty(LastData)
       THEN /\ Issue("search", Params("snippet", "publishedAfter", <<"one_day_ago", req.region_code>>,
                                      "video", "viewCount", 50))
            /\ pc' = "trending_fallback"
            /\ UNCHANGED <<loc, resp>>
       ELSE /\ loc' = [built |-> popular_entries(LastData.items)]
            /\ resp' = trending_Result(loc'.built)
            /\ pc' = "done"
            /\ UNCHANGED calls
    /\ UNCHANGED req

\* line 475 with a test for None alone
fallback_empty_NoneOnly(trending_data) == ~Truthy(trending_data)

\* line 475
fallback_empty(trending_data) == ~HasItems(trending_data)

\* lines 475-483
trending_AfterFallback ==
    /\ pc = "trending_fallback"
    /\ ~Pending
    /\ IF fallback_empty(LastData)
       THEN /\ resp' = Json(404, [error |-> QuotaMessage])
            /\ pc' = "done"
            /\ UNCHANGED <<calls, loc>>
       ELSE /\ Issue("videos", Params("statistics,contentDetails", "id",
                         [i \in 1..Len(LastData.items) |-> LastData.items[i].videoId], "", "", 0))
            /\ loc' = [trending_data |-> LastData]
            /\ pc' = "trending_details"
            /\ UNCHANGED resp
    /\ UNCHANGED req

\* line 486 answering as line 476 does
details_failure_NotFound == Json(404, [error |-> QuotaMessage])

\* line 486
details_failure == Json(500, [error |-> "Failed to fetch video details"])

\* lines 485-591
trending_AfterDetails ==
    /\ pc = "trending_details"
    /\ ~Pending
    /\ IF ~Truthy(LastData)
       THEN /\ resp' = details_failure
            /\ UNCHANGED loc
       ELSE IF KeyErrorOnItems(LastData)
       THEN /\ resp' = Raise("KeyError")
            /\ UNCHANGED loc
       ELSE /\ loc' = [trending_data |-> loc.trending_data,
                       built |-> fallback_entries(loc.trending_data.items, LastData.items)]
            /\ resp' = trending_Result(loc'.built)
    /\ pc' = "done"
    /\ UNCHANGED <<req, calls>>

\* region codes, as region_code.upper() gives them
Regions == {"US"}

InitTrending ==
    /\ req \in {[endpoint |-> "trending", region_code |-> r] : r \in Regions}
    /\ pc = "trending_start"
    /\ calls = <<>>
    /\ loc = NoLoc
    /\ resp = NoResp

(********************** the test-channel endpoint ***************************)
\* the snippet of the channels resource the test endpoint reads
TestChannel == [title |-> "Channel", description |-> <<"d", "e", "s", "c">>]

\* line 202 with `or` for `and`
test_LooksLikeName_Or(channel_input) ==
    ~startswith(channel_input, <<"U", "C">>) \/ Len(channel_input) # IdLen

\* line 202
test_LooksLikeName(channel_input) ==
    ~startswith(channel_input, <<"U", "C">>) /\ Len(channel_input) # IdLen

\* lines 199-206: which name, if any, is searched for, and the method reported
test_ResolutionSearch(channel_input) ==
    IF startswith(channel_input, <<"@">>)
    THEN [search |-> TRUE, name |-> Drop(channel_input, 1),
          resolution_method |-> "@ username search"]
    ELSE IF test_LooksLikeName(channel_input)
    THEN [search |-> TRUE, name |-> channel_input, resolution_method |-> "name search"]
    ELSE [search |-> FALSE, name |-> <<>>, resolution_method |-> "direct channel ID"]

\* lines 208-219: 404 for an unresolved input, else the channels call
test_Resolved(channel_id, resolution_method) ==
    IF channel_id = <<>>
    THEN /\ resp' = Json(404, [success |-> FALSE, original_input |-> req.input,
                               error |-> "Could not resolve channel ID"])
         /\ pc' = "done"
         /\ UNCHANGED <<calls, loc>>
    ELSE /\ Issue("channels", Params("snippet", "id", channel_id, "", "", 0))
         /\ loc' = [channel_id |-> channel_id, resolution_method |-> resolution_method]
         /\ pc' = "test_channels"
         /\ UNCHANGED resp

\* lines 191-219, up to the first upstream call
test_Start ==
    /\ pc = "test_start"
    /\ LET r == test_ResolutionSearch(req.input)
       IN  IF r.search
           THEN /\ Issue("search", ChannelSearchParams(r.name))
                /\ loc' = [resolution_method |-> r.resolution_method]
                /\ pc' = "test_resolve"
                /\ UNCHANGED resp
           ELSE test_Resolved(req.input, r.resolution_method)
    /\ UNCHANGED req

\* lines 250-256 and 208-219, once the resolution search has returned
test_AfterSearch ==
    /\ pc = "test_resolve"
    /\ ~Pending
    /\ test_Resolved(get_channel_id_from_name(LastData), loc.resolution_method)
    /\ UNCHANGED req

\* lines 221-238
test_AfterChannels ==
    /\ pc = "test_channels"
    /\ ~Pending
    /\ IF HasItems(LastData)
       THEN resp' = Json(200, [success |-> TRUE, original_input |-> req.input,
                               resolved_channel_id |-> loc.channel_id,
                               resolution_method |-> loc.resolution_method,
                               channel_title |-> LastData.items[1].title,
                               channel_description |->
                                   Take(LastData.items[1].description, 100)
                                       \o <<".", ".", ".">>])
       ELSE resp' = Json(404, [success |-> FALSE, original_input |-> req.input,
                               resolved_channel_id |-> loc.channel_id,
                               resolution_method |-> loc.resolution_method,
                               error |-> "Channel ID resolved but no data found"])
    /\ pc' = "done"
    /\ UNCHANGED <<req, calls, loc>>

InitTest ==
    /\ req \in {[endpoint |-> "test-channel", input |-> i] : i \in ChannelInputs}
    /\ pc = "test_start"
    /\ calls = <<>>
    /\ loc = NoLoc
    /\ resp = NoResp

\* line 258: the input the test endpoint has answered is sent to the channel
\* endpoint; the request keeps what the test endpoint did with it
channel_SameInput ==
    /\ req.endpoint = "test-channel"
    /\ pc = "done"
    /\ req' = [endpoint |-> "channel", input |-> req.input,
               tested |-> [calls |-> calls, loc |-> loc, resp |-> resp]]
    /\ pc' = "channel_start"
    /\ calls' = <<>>
    /\ loc' = NoLoc
    /\ resp' = NoResp

\* ---- the service as a whole ----
(***************************** the system **********************************)
\* the item lists the upstream may answer the pending call with
Answers ==
    CASE pc = "channel_resolve" -> Outcomes(ChannelHits)
      [] pc = "channel_channels" -> Outcomes({<<>>, <<TheChannel>>})
      [] pc = "channel_videos" -> Outcomes(RecentLists)
      [] pc = "channel_details" -> Outcomes(DetailLists(Len(calls[Len(calls)].params.arg)))
      [] pc = "test_resolve" -> Outcomes(ChannelHits)
      [] pc = "test_channels" -> Outcomes({<<>>, <<TestChannel>>})
      [] pc = "video_video" -> Outcomes({<<>>} \cup {<<v>> : v \in VideoKinds})
      [] pc = "video_related" -> Outcomes(RelatedLists)
      [] pc = "video_comments" -> Outcomes(CommentLists)
      [] pc = "trending_primary" -> Outcomes(PopularLists)
      [] pc = "trending_fallback" -> Outcomes(FallbackLists)
      [] pc = "trending_details" ->
             Outcomes(FallbackDetailLists(Len(calls[Len(calls)].params.arg)))

\* lines 42-59: requests.get returns or raises, and make_youtube_request
\* hands the handler the data or None
UpstreamReturn ==
    /\ Pending
    /\ \E o \in Answers :
           calls' = [calls EXCEPT ![Len(calls)] =
                        [@ EXCEPT !.returned = TRUE, !.outcome = o,
                                  !.data = make_youtube_request(o)]]
    /\ UNCHANGED <<req, pc, loc, resp>>

InitChannel ==
    /\ req \in {[endpoint |-> "channel", input |-> i] : i \in ChannelInputs}
    /\ pc = "channel_start"
    /\ calls = <<>>
    /\ loc = NoLoc
    /\ resp = NoResp

NextChannel ==
    \/ channel_Start
    \/ channel_AfterSearch
    \/ channel_AfterChannels
    \/ channel_AfterVideos
    \/ channel_AfterDetails
    \/ UpstreamReturn

SpecChannel == InitChannel /\ [][NextChannel]_vars

\* the same input put to the test endpoint and then to the channel endpoint,
\* the latter followed as far as its channels call
NextResolution ==
    \/ test_Start
    \/ test_AfterSearch
    \/ test_AfterChannels
    \/ channel_SameInput
    \/ channel_Start
    \/ channel_AfterSearch
    \/ UpstreamReturn

SpecResolution == InitTest /\ [][NextResolution]_vars

NextVideo ==
    \/ video_Start
    \/ video_AfterVideo
    \/ video_AfterRelated
    \/ video_AfterComments
    \/ UpstreamReturn

SpecVideo == InitVideo /\ [][NextVideo]_vars

NextTrending ==
    \/ trending_Start
    \/ trending_AfterPrimary
    \/ trending_AfterFallback
    \/ trending_AfterDetails
    \/ UpstreamReturn

SpecTrending == InitTrending /\ [][NextTrending]_vars

\* any request to one of the three analytics endpoints
Init == InitChannel \/ InitVideo \/ InitTrending

Next ==
    \/ channel_Start
    \/ channel_AfterSearch
    \/ channel_AfterChannels
    \/ channel_AfterVideos
    \/ channel_AfterDetails
    \/ video_Start
    \/ video_AfterVideo
    \/ video_AfterRelated
    \/ video_AfterComments
    \/ trending_Start
    \/ trending_AfterPrimary
    \/ trending_AfterFallback
    \/ trending_AfterDetails
    \/ UpstreamReturn

Spec == Init /\ [][Next]_vars

\* ---- properties ----
(***************************** properties **********************************)
IsChannelSearch(c) == c.endpoint = "search" /\ c.params.type = "channel"
ChannelSearches == {i \in 1..Len(calls) : IsChannelSearch(calls[i])}

\* an upstream answer that carries no results: transport failure, non-200,
\* undecodable body, or a body whose items are absent or empty
NoResults(c) ==
    /\ c.returned
    /\ \/ c.outcome.exc
       \/ c.outcome.status # 200
       \/ ~c.outcome.json
       \/ "items" \notin c.outcome.keys
       \/ c.outcome.items = <<>>

GotResults(c) == c.returned /\ ~NoResults(c)

\* the channel id the handler goes on with, wherever it shows
UsesChannelId(id) ==
    /\ \A i \in 1..Len(calls) :
           calls[i].endpoint = "channels" => calls[i].params.arg = id
    /\ (pc = "done" /\ resp.status = 200) => resp.body.channel.id = id

\* C1: channel resolution is first-match: "@..." issues exactly one channel
\* search for the input without its "@" and goes on with the first hit's id;
\* an input that neither starts with "UC" nor has length 24 issues exactly one
\* channel search for the input as given; any other input issues no search
\* and is itself the channel id.
C1_ResolutionFirstMatch ==
    (req.endpoint = "channel" /\ pc # "channel_start") =>
        LET input == req.input
            searched(name) ==
                /\ ChannelSearches = {1}
                /\ calls[1].params.key = "q"
                /\ calls[1].params.arg = name
                /\ calls[1].params.maxResults = 1
                /\ GotResults(calls[1]) => UsesChannelId(calls[1].outcome.items[1].channelId)
        IN  IF input[1] = "@" THEN searched(Tail(input))
            ELSE IF ~(Len(input) >= 2 /\ input[1] = "U" /\ input[2] = "C") /\ Len(input) # 24
            THEN searched(input)
            ELSE /\ ChannelSearches = {}
                 /\ calls[1].endpoint = "channels"
                 /\ UsesChannelId(input)

\* a 24-character input starting with "UC" was answered 200 without a search
C1_Witness ==
    /\ req.endpoint = "channel"
    /\ Len(req.input) = 24 /\ req.input[1] = "U" /\ req.input[2] = "C"
    /\ pc = "done" /\ resp.status = 200
    /\ ChannelSearches = {}
    /\ resp.body.channel.id = req.input

\* C2: when the resolution search yields no results the channel endpoint
\* answers 404 with an error field, never 200, and issues no further upstream
\* call.
C2_UnresolvedIs404 ==
    (req.endpoint = "channel" /\ calls # <<>> /\ IsChannelSearch(calls[1])
        /\ NoResults(calls[1])) =>
        /\ Len(calls) = 1
        /\ pc \in {"channel_resolve", "done"}
        /\ pc = "done" => (resp.status = 404 /\ "error" \in DOMAIN resp.body)

\* a resolution search that failed in transport was answered 404
C2_Witness ==
    /\ req.endpoint = "channel" /\ pc = "done"
    /\ Len(calls) = 1 /\ IsChannelSearch(calls[1]) /\ calls[1].outcome.exc
    /\ resp.status = 404 /\ "error" \in DOMAIN resp.body

\* C6: when the recent-videos listing succeeded and the batched details
\* fetch failed or came back without usable items, the channel endpoint still
\* answers 200 with recentVideos empty, zero averages and no top video.
C6_DetailsFailureDegrades ==
    (req.endpoint = "channel" /\ pc = "done" /\ calls # <<>>
        /\ calls[Len(calls)].endpoint = "videos" /\ NoResults(calls[Len(calls)])) =>
        /\ resp.status = 200
        /\ resp.body.recentVideos = <<>>
        /\ resp.body.enhancedAnalytics.avgViewsPerVideo = 0
        /\ resp.body.enhancedAnalytics.avgEngagementRate = 0
        /\ resp.body.enhancedAnalytics.topPerformingVideo = Null

\* the lexicon as sets, and the two ways of counting
PositiveTerms == {positive_words[i] : i \in 1..Len(positive_words)}
NegativeTerms == {negative_words[i] : i \in 1..Len(negative_words)}
Folded(text) == lower(text)
TermsIn(terms, text) == Cardinality({w \in terms : Contains(Folded(text), w)})
Occurrences(terms, text) ==
    Cardinality({<<w, k>> \in terms \X (0..Len(text)) :
                    k + Len(w) <= Len(text) /\ SubSeq(Folded(text), k + 1, k + Len(w)) = w})
Majority(p, n) == IF p > n THEN "positive" ELSE IF n > p THEN "negative" ELSE "neutral"

\* C7 as stated: the classifier case-folds the text, counts the occurrences of
\* the positive and of the negative terms, and answers by the greater count,
\* neutral on a tie.
C7_CountsOccurrences ==
    (req.endpoint = "sentiment" /\ pc = "done") =>
        loc.sentiment = Majority(Occurrences(PositiveTerms, req.text),
                                 Occurrences(NegativeTerms, req.text))

\* C7, amended: the classifier case-folds the text, counts how many terms of
\* the positive list and how many of the negative list the text contains as a
\* substring, each term once however often it occurs, and answers by the
\* greater count, neutral on every tie, the empty text included.
C7_CountsContainedTerms ==
    (req.endpoint = "sentiment" /\ pc = "done") =>
        /\ loc.sentiment = Majority(TermsIn(PositiveTerms, req.text),
                                    TermsIn(NegativeTerms, req.text))
        /\ req.text = <<>> => loc.sentiment = "neutral"

\* a text with an upper-case positive term twice and a negative term once,
\* classified neutral
C7_Witness ==
    /\ req.endpoint = "sentiment" /\ pc = "done"
    /\ Occurrences(PositiveTerms, req.text) = 2
    /\ TermsIn(PositiveTerms, req.text) = 1
    /\ TermsIn(NegativeTerms, req.text) = 1
    /\ req.text # Folded(req.text)
    /\ loc.sentiment = "neutral"

\* the video endpoint has answered, the video record having been fetched
VideoAnswered == req.endpoint = "video" /\ pc = "done" /\ GotResults(calls[1])
FetchedVideo == calls[1].outcome.items[1]

SetMax(S) == CHOOSE x \in S : \A y \in S : y <= x
SetMin(S) == CHOOSE x \in S : \A y \in S : x <= y

\* C5: upload frequency is the number of channel videos fetched over the
\* days between the newest and the oldest publish time among them, floored at
\* one day, for every fetched list of more than one video.
C5_UploadFrequency ==
    (VideoAnswered /\ resp.status = 200 /\ Len(calls[2].outcome.items) > 1) =>
        LET items == calls[2].outcome.items
            times == {items[i].publishedAt : i \in 1..Len(items)}
            whole_days == (SetMax(times) - SetMin(times)) \div 24
        IN  resp.body.analytics.uploadFrequency =
                Round2(Len(items), IF whole_days < 1 THEN 1 ELSE whole_days)

\* C8: in every non-null comment analysis the three counts of
\* sentimentDistribution sum to totalComments, which is the number of
\* comments fetched and classified, not the number returned (at most 20).
C8_DistributionSumsToTotal ==
    (VideoAnswered /\ resp.status = 200 /\ resp.body.commentsAnalysis # Null) =>
        LET a == resp.body.commentsAnalysis
            fetched == calls[3].outcome.items
        IN  /\ a.sentimentDistribution.positive + a.sentimentDistribution.negative
                   + a.sentimentDistribution.neutral = a.totalComments
            /\ a.totalComments = Len(fetched)
            /\ Len(a.comments) = (IF Len(fetched) > 20 THEN 20 ELSE Len(fetched))

\* 21 comments of mixed sentiment were fetched, 20 of them returned
C8_Witness ==
    /\ VideoAnswered /\ resp.status = 200 /\ resp.body.commentsAnalysis # Null
    /\ Len(calls[3].outcome.items) = 21
    /\ Len(resp.body.commentsAnalysis.comments) = 20
    /\ resp.body.commentsAnalysis.totalComments = 21
    /\ resp.body.commentsAnalysis.sentimentDistribution.positive > 0
    /\ resp.body.commentsAnalysis.sentimentDistribution.negative > 0

\* C9: a video with no views gets engagementRate 0 whatever its likes and
\* comments, no division by zero occurs in engagementRate, likesToViewsRatio
\* or commentsToViewsRatio, and with views > 0 the engagement rate is
\* (likes + comments) / views * 100 (answered rounded to two decimals).
C9_EngagementRate ==
    VideoAnswered =>
        LET views == FetchedVideo.viewCount
            likes == FetchedVideo.likeCount
            comments == FetchedVideo.commentCount
        IN  /\ resp.raised # "ZeroDivisionError"
            /\ loc.engagement_rate # ZeroDivisionError
            /\ views = 0 => loc.engagement_rate[1] = 0
            /\ views > 0 =>
                   loc.engagement_rate[1] * views = (likes + comments) * 100 * loc.engagement_rate[2]
            /\ resp.status = 200 =>
                   /\ views = 0 =>
                          /\ resp.body.video.engagementRate = 0
                          /\ resp.body.analytics.likesToViewsRatio = 0
                          /\ resp.body.analytics.commentsToViewsRatio = 0
                   /\ views > 0 =>
                          /\ resp.body.video.engagementRate
                                 = RoundHalfEven((likes + comments) * 10000, views)
                          /\ resp.body.analytics.likesToViewsRatio
                                 = RoundHalfEven(likes * 10000, views)
                          /\ resp.body.analytics.commentsToViewsRatio
                                 = RoundHalfEven(comments * 10000, views)

\* views = 0, likes = 5, comments = 3 was answered 200 with engagementRate 0
C9_Witness ==
    /\ VideoAnswered /\ resp.status = 200
    /\ FetchedVideo.viewCount = 0 /\ FetchedVideo.likeCount = 5
    /\ FetchedVideo.commentCount = 3
    /\ resp.body.video.engagementRate = 0

\* C3: when the most-popular listing yields no items or fails and the
\* fallback search yields no items or fails too, the trending endpoint answers
\* 404 with the message naming API quotas or restrictions, never 200 with an
\* empty list.
C3_NoTrendingDataIs404 ==
    (req.endpoint = "trending" /\ Len(calls) >= 2 /\ NoResults(calls[1])
        /\ NoResults(calls[2])) =>
        /\ Len(calls) = 2
        /\ pc \in {"trending_fallback", "done"}
        /\ pc = "done" =>
               /\ resp.status = 404
               /\ "error" \in DOMAIN resp.body
               /\ resp.body.error = QuotaMessage

\* an empty most-popular listing and an empty fallback search were answered 404
C3_Witness ==
    /\ req.endpoint = "trending" /\ pc = "done" /\ Len(calls) = 2
    /\ calls[1].outcome = ItemsObject(<<>>) /\ calls[2].outcome = ItemsObject(<<>>)
    /\ resp.status = 404 /\ resp.body.error = QuotaMessage

TrendingAnswered == req.endpoint = "trending" /\ pc = "done" /\ resp.status = 200

\* C4: in every successful trending answer trendingVideos is in
\* non-increasing order of viewVelocity, entries of equal velocity are in
\* their upstream order, and the list is the 30 fastest of the entries built
\* (all of them when fewer were built).
C4_RankedByVelocity ==
    TrendingAnswered =>
        LET out == resp.body.trendingVideos
            built == loc.built
            place(e) == CHOOSE i \in 1..Len(built) : built[i] = e
            kept == {out[i] : i \in 1..Len(out)}
            all == {built[i] : i \in 1..Len(built)}
        IN  /\ Len(out) = (IF Len(built) > 30 THEN 30 ELSE Len(built))
            /\ kept \subseteq all
            /\ Cardinality(kept) = Len(out)
            /\ \A i \in 1..Len(out) : \A j \in (i + 1)..Len(out) :
                   /\ out[i].viewVelocity >= out[j].viewVelocity
                   /\ out[i].viewVelocity = out[j].viewVelocity
                          => place(out[i]) < place(out[j])
            /\ \A e \in all \ kept : \A k \in kept :
                   /\ e.viewVelocity <= k.viewVelocity
                   /\ e.viewVelocity = k.viewVelocity => place(k) < place(e)

\* 31 entries were built, the first three with velocities 10, 50 and 30; the
\* answer keeps 30, the velocity 50 first, and entries of equal velocity side by
\* side in upstream order
C4_Witness ==
    /\ TrendingAnswered
    /\ Len(loc.built) = 31 /\ Len(resp.body.trendingVideos) = 30
    /\ loc.built[1].viewVelocity = 1000
    /\ loc.built[2].viewVelocity = 5000
    /\ loc.built[3].viewVelocity = 3000
    /\ resp.body.trendingVideos[1].viewVelocity = 5000
    /\ \E i \in 1..29 :
           /\ resp.body.trendingVideos[i].viewVelocity
                  = resp.body.trendingVideos[i + 1].viewVelocity
           /\ resp.body.trendingVideos[i].id < resp.body.trendingVideos[i + 1].id

\* the same upstream call: endpoint, selecting parameter and its value
SameCall(a, b) ==
    /\ a.endpoint = b.endpoint
    /\ a.params.key = b.params.key
    /\ a.params.type = b.params.type
    /\ a.params.arg = b.params.arg

Endpoints == [i \in 1..Len(calls) |-> calls[i].endpoint]
IsPrefix(s, t) == Len(s) <= Len(t) /\ SubSeq(t, 1, Len(s)) = s

\* C10: a request issues a strictly sequential chain of upstream calls without
\* retries: no call is issued twice, a call is issued only when every earlier
\* one has returned, and the chain is a prefix of search?, channels, search,
\* videos (channel), of videos, search, commentThreads (video: one call when
\* the video is missing, else all three) or of videos, search, videos
\* (trending).
C10_SequentialChain ==
    /\ \A i \in 1..Len(calls) : \A j \in (i + 1)..Len(calls) :
           /\ calls[i].returned
           /\ ~SameCall(calls[i], calls[j])
    /\ req.endpoint = "channel" =>
           \/ IsPrefix(Endpoints, <<"search", "channels", "search", "videos">>)
           \/ IsPrefix(Endpoints, <<"channels", "search", "videos">>)
    /\ req.endpoint = "video" =>
           /\ IsPrefix(Endpoints, <<"videos", "search", "commentThreads">>)
           /\ pc = "done" => Len(calls) = (IF NoResults(calls[1]) THEN 1 ELSE 3)
    /\ req.endpoint = "trending" =>
           IsPrefix(Endpoints, <<"videos", "search", "videos">>)
    /\ pc = "done" => (calls # <<>> /\ calls[Len(calls)].returned)

\* a channel request that went through all four calls, the last of which failed
C10_Witness ==
    /\ req.endpoint = "channel" /\ pc = "done"
    /\ Endpoints = <<"search", "channels", "search", "videos">>
    /\ calls[4].outcome = TransportFailure
    /\ resp.status = 200

\* C11: in the video endpoint, once the video record was fetched, a related
\* search or a comment fetch that failed or came back empty is not fatal: the
\* answer is 200, with relatedVideos empty and uploadFrequency 0 when the
\* search gave no data, and commentsAnalysis null when the comment call gave no
\* data or no comments; 404 is answered only for a missing video record.
C11_SoftFailuresAfterVideo ==
    (req.endpoint = "video" /\ pc = "done") =>
        /\ resp.status = 404 <=> NoResults(calls[1])
        /\ GotResults(calls[1]) =>
               /\ resp.status = 200
               /\ NoResults(calls[2]) =>
                      /\ resp.body.relatedVideos = <<>>
                      /\ resp.body.analytics.uploadFrequency = 0
               /\ NoResults(calls[3]) => resp.body.commentsAnalysis = Null

\* the call came back without an item list: transport failure, non-200,
\* undecodable body, or a body that has no items
FetchFailed(c) ==
    /\ c.returned
    /\ \/ c.outcome.exc
       \/ c.outcome.status # 200
       \/ ~c.outcome.json
       \/ "items" \notin c.outcome.keys

\* C12: the trending endpoint makes its fallback search only when the
\* most-popular listing gave no items, and fetches details only for a fallback
\* search that gave at least one item; when that details fetch fails the
\* answer is 500 with an error field, never 404 and never a 200, and no entry
\* is built.
C12_FallbackDetailsFailureIs500 ==
    req.endpoint = "trending" =>
        /\ Len(calls) >= 2 => (calls[2].endpoint = "search" /\ NoResults(calls[1]))
        /\ Len(calls) >= 3 => (calls[3].endpoint = "videos" /\ GotResults(calls[2]))
        /\ (pc = "done" /\ GotResults(calls[1])) => Len(calls) = 1
        /\ (pc = "done" /\ Len(calls) >= 2 /\ GotResults(calls[2])) => Len(calls) = 3
        /\ (pc = "done" /\ Len(calls) = 3 /\ FetchFailed(calls[3])) =>
               /\ resp.status = 500
               /\ "error" \in DOMAIN resp.body
               /\ "built" \notin DOMAIN loc

\* the listing failed, the fallback search gave two items, the details fetch
\* timed out, and the answer was 500 with its error message
C12_Witness ==
    /\ req.endpoint = "trending" /\ pc = "done" /\ Len(calls) = 3
    /\ calls[1].outcome = HttpError
    /\ Len(calls[2].outcome.items) = 2
    /\ calls[3].outcome = TransportFailure
    /\ resp.status = 500
    /\ resp.body.error = "Failed to fetch video details"

\* the channel search a call log begins with, if any
SearchCall(log) ==
    IF log # <<>> /\ IsChannelSearch(log[1]) THEN <<log[1].params>> ELSE <<>>
\* the channel id a call log goes on with: that of its channels call, or none
ResolvedId(log) ==
    IF \E i \in 1..Len(log) : log[i].endpoint = "channels"
    THEN <<log[CHOOSE i \in 1..Len(log) : log[i].endpoint = "channels"].params.arg>>
    ELSE <<>>
\* the channel endpoint has resolved an input the test endpoint answered before
ResolvedAgain ==
    /\ req.endpoint = "channel" /\ "tested" \in DOMAIN req
    /\ pc \in {"channel_channels", "done"}
\* both resolution searches, if made, were answered alike
SameAnswers ==
    SearchCall(calls) = <<>> \/ calls[1].outcome = req.tested.calls[1].outcome

\* C13: the test-channel endpoint and the channel endpoint resolve an input
\* alike: both issue the same single channel search or none; when the search
\* is answered alike both go on with the same channel id, the one the test
\* endpoint reports, and one answers 404 for an unresolved input exactly when
\* the other does.
C13_SameResolution ==
    (req.endpoint = "channel" /\ "tested" \in DOMAIN req /\ pc # "channel_start") =>
        /\ SearchCall(calls) = SearchCall(req.tested.calls)
        /\ {i \in 1..Len(calls) : IsChannelSearch(calls[i])}
               = {i \in 1..Len(req.tested.calls) : IsChannelSearch(req.tested.calls[i])}
        /\ (ResolvedAgain /\ SameAnswers) =>
               /\ ResolvedId(calls) = ResolvedId(req.tested.calls)
               /\ (pc = "done" /\ resp.status = 404)
                      <=> (req.tested.resp.status = 404
                              /\ "resolved_channel_id" \notin DOMAIN req.tested.resp.body)
               /\ pc = "channel_channels" =>
                      req.tested.resp.body.resolved_channel_id = loc.channel_id

\* an "@" input whose search found a channel both times: the test endpoint
\* answered 200 with the id the channel endpoint then asks the channels
\* resource for
C13_Witness ==
    /\ ResolvedAgain /\ pc = "channel_channels"
    /\ req.input[1] = "@"
    /\ GotResults(calls[1]) /\ calls[1].outcome = req.tested.calls[1].outcome
    /\ req.tested.resp.status = 200
    /\ req.tested.resp.body.resolution_method = "@ username search"
    /\ req.tested.resp.body.resolved_channel_id = calls[2].params.arg

\* the duration bucket and the engagement band of an entry, by their bounds
InBucket(v, bucket) ==
    CASE bucket = "Short" -> v.duration < 300
      [] bucket = "Medium" -> v.duration >= 300 /\ v.duration < 1200
      [] bucket = "Long" -> v.duration >= 1200
InBand(v, band) ==
    LET interactions == (v.likeCount + v.commentCount) * 100
        views == IF v.viewCount > 1 THEN v.viewCount ELSE 1
    IN  CASE band = "Low (0-2%)" -> interactions < 2 * views
          [] band = "Medium (2-5%)" -> interactions >= 2 * views /\ interactions < 5 * views
          [] band = "High (5%+)" -> interactions >= 5 * views
RowCounts(rows) == SumSeq([i \in 1..Len(rows) |-> rows[i].count])

\* C14: in every successful trending answer the aggregates are taken of all
\* entries built, not of the 30 answered: totalVideos is their number and
\* equals the sum of the three engagementDistribution counts and the sum of
\* the categoryBreakdown counts; each band and each category row counts the
\* entries in it (Short < 300 s, Medium < 1200 s, Long otherwise), no category
\* has two rows or an empty one; and trendingVideos has min(30, totalVideos)
\* entries.
C14_AggregatesOverAllEntries ==
    TrendingAnswered =>
        LET body == resp.body
            rows == body.categoryBreakdown
            bands == body.engagementDistribution
        IN  /\ body.summary.totalVideos = Len(loc.built)
            /\ RowCounts(bands) = body.summary.totalVideos
            /\ RowCounts(rows) = body.summary.totalVideos
            /\ Len(bands) = 3
            /\ {bands[i].range : i \in 1..3} = {"Low (0-2%)", "Medium (2-5%)", "High (5%+)"}
            /\ \A i \in 1..3 :
                   bands[i].count
                       = Cardinality({k \in 1..Len(loc.built) :
                                         InBand(loc.built[k], bands[i].range)})
            /\ \A i \in 1..Len(rows) :
                   /\ rows[i].category \in {"Short", "Medium", "Long"}
                   /\ rows[i].count > 0
                   /\ rows[i].count
                          = Cardinality({k \in 1..Len(loc.built) :
                                            InBucket(loc.built[k], rows[i].category)})
                   /\ \A j \in 1..Len(rows) : rows[i].category = rows[j].category => i = j
            /\ Len(body.trendingVideos)
                   = (IF body.summary.totalVideos > 30 THEN 30 ELSE body.summary.totalVideos)

\* 31 entries of all three lengths and all three bands were built: the answer
\* lists 30 of them and counts 31 in the summary, the bands and the categories
C14_Witness ==
    /\ TrendingAnswered
    /\ Len(loc.built) = 31
    /\ Len(resp.body.trendingVideos) = 30
    /\ resp.body.summary.totalVideos = 31
    /\ Len(resp.body.categoryBreakdown) = 3
    /\ \A i \in 1..3 : resp.body.engagementDistribution[i].count > 0
    /\ RowCounts(resp.body.categoryBreakdown) = 31

====
